---- MODULE Spec2Model ----
(***************************************************************************)
(* knockknock: the supervisor's update state machine over the on-disk      *)
(* layout (src/supervisor/supervisor.go, first revision in the file) and   *)
(* the registry download (oras Client.DownloadUpdate).                     *)
(*                                                                         *)
(* The filesystem is the shared state.  Every os.* call of Update,         *)
(* Rollback, updateBinSymlink, migrateLegacyBinary and cleanupOldBackups   *)
(* is one action, so the states between two calls are states of the model. *)
(* A call whose error the code handles may fail for an environment reason  *)
(* (EIO, EACCES, EXDEV, ...): at most MaxFaults such failures are injected *)
(* in one behaviour.  Failures the state decides (EEXIST, ENOENT) and the  *)
(* registry's answers are not counted.                                     *)
(*                                                                         *)
(* The wall clock `now` counts seconds and never runs backwards.           *)
(***************************************************************************)
EXTENDS Integers, Sequences, FiniteSets, TLC

\* ------------------------------------------------------------------ bounds

\* Seconds the clock can show: previous-<ts> and current.tmp.<unix> names.
MaxTime == 4

\* Environment failures injected in one behaviour.
MaxFaults == 1

\* Calls of Update and Rollback in one concurrent run.
MaxCalls == 2

\* cleanupOldBackups(3) in Update.
KEEP == 3

\* Tags the registry lists in one answer.
MaxTags == 3

\* The watcher's clock runs to MaxWatch seconds in steps of Quantum seconds.
MaxWatch == 100

Quantum == 20

\* Unclean exits that make a crash loop, and the window they must fall in.
CrashN == 5

WindowT == 60

\* ------------------------------------------------------------- vocabulary

\* Registry tags Update is called with.
Tags == {"v1", "v2"}

\* Directory names under data_dir/versions/.
Vers == Tags \cup {"legacy"}

None == "none"

Times == 1..MaxTime

\* The callers of Update and Rollback inside the supervisor process.
Procs == {"ipc", "watcher"}

\* What a file can hold, as far as verifyBinary can tell: an ELF header,
\* something else, nothing; "link" is a symlink to current/<binary_name>
\* (bin_path moved into versions/legacy by a migration that raced).
Contents == {"elf", "bad", "empty", "link"}

\* What verifyBinary can find at a path besides those: a file of fewer than
\* four bytes, or a directory.
OddContents == {"short", "dir"}

\* What a download leaves in the file: a native executable or nothing (a
\* truncated or empty blob).
Payloads == {"elf", "empty"}

NoFile == [exists |-> FALSE, x |-> FALSE, r |-> FALSE, c |-> "empty"]

GoodFile == [exists |-> TRUE, x |-> TRUE, r |-> TRUE, c |-> "elf"]

\* A migration that loses the old binary.
LegacyFileLost == NoFile

\* The binary of a legacy installation: the program that is running.
LegacyFile == GoodFile

VARIABLES
    now,        \* wall clock, seconds
    faults,     \* environment failures injected so far
    dataDir,    \* data_dir and data_dir/versions exist
    dirs,       \* version directories versions/<V> that exist
    files,      \* versions/<V>/<binary_name>
    current,    \* target of the `current` link, None when absent
    previous,   \* previous-<ts> links: ts -> target, None when absent
    tmpcur,     \* current.tmp.<unix> links: second -> target
    stray,      \* transient links left behind: [cur: targets, bin: BOOLEAN]
    binpath,    \* bin_path: "absent", "regular" or "symlink" (to current/<binary_name>)
    proc,       \* per caller: position in Update/Rollback, its locals, what it
                \* logged with slog.Warn, and the links as they were at the call
    calls,      \* calls started, counted in the concurrent runs only
    registry,   \* the tags of the repository, in the order the registry lists them
    chk,        \* CheckForUpdate: the running version, and what the call returned
    watch,      \* the crash-loop watcher: its clock, the child, the recent unclean exits
    hist,       \* History: what the last call returned, and the call before it
    vfy,        \* verifyBinary: the path it is given and what it returned
    run         \* Run: one process from its start to its exit

vars == <<now, faults, dataDir, dirs, files, current, previous, tmpcur, stray, binpath, proc, calls,
          registry, chk, watch, hist, vfy, run>>

\* What the calls of Update and Rollback leave alone.
aux == <<registry, chk, watch, hist, vfy, run>>

fs == <<dataDir, dirs, files, current, previous, tmpcur, stray, binpath>>

\* What a caller remembers of its previous call when that was a successful
\* Rollback: the two newest backups it found (names n1 > n2, 0 when missing),
\* the target of the second, and whether it consumed the first and added none.
NoLast == [ok |-> FALSE, n1 |-> 0, n2 |-> 0, tgt |-> None]

\* CheckForUpdate not called; s.currentVersion is 1.2.3.
NoCheck ==
    [pc |-> "idle", cur |-> <<1, 2, 3>>, err |-> None, latest |-> <<>>, update |-> <<>>,
     all |-> <<>>]

\* The watcher with a running child and no exit seen.  kind is how the
\* child's binary behaves: "crashing" exits with status 1 at once, every
\* time; "flaky" exits at some time, cleanly or not.
NoWatch == [st |-> "running", kind |-> "flaky", t |-> 0, exits |-> <<>>, code |-> None]

\* History not called yet.  out is the list returned, scanned whether the
\* directory scan worked; before and scannedBefore are those of the call
\* before (n counts the calls).
NoHistory == [n |-> 0, out |-> <<>>, scanned |-> FALSE, before |-> <<>>, scannedBefore |-> FALSE]

\* verifyBinary not called; nothing at the path.
NoVerify == [f |-> [exists |-> FALSE, x |-> FALSE, r |-> FALSE, c |-> "empty", mode |-> {}],
             res |-> None]

\* A process that has not started: whether KNOCKKNOCK_SOCKET is set, how
\* userMain ends if it is run, which of the constructors fail, and what the
\* process has done so far.
NoRun ==
    [pc |-> "start", marker |-> FALSE, main |-> "returns", errs |-> {},
     ran |-> FALSE, recovered |-> FALSE, status |-> None]

Idle ==
    [pc |-> "idle", op |-> None, ver |-> None, ts |-> 0, target |-> None,
     tmp |-> 0, ntmp |-> None, btmp |-> FALSE, bk |-> 0, rm |-> <<>>,
     verified |-> FALSE, swapped |-> FALSE, sig |-> 0, warn |-> {},
     res |-> None, failed |-> None, left |-> FALSE, last |-> NoLast,
     pre |-> [cur |-> None, prev |-> [t \in Times |-> None], bin |-> "absent",
              root |-> FALSE, dirs |-> {},
              tmpcur |-> [t \in Times |-> None], stray |-> [cur |-> {}, bin |-> FALSE]]]

Init ==
    /\ now = 1
    /\ faults = 0
    /\ dataDir = FALSE
    /\ dirs = {}
    /\ files = [v \in Vers |-> NoFile]
    /\ current = None
    /\ previous = [t \in Times |-> None]
    /\ tmpcur = [t \in Times |-> None]
    /\ stray = [cur |-> {}, bin |-> FALSE]
    /\ binpath \in {"absent", "regular"}
    /\ proc = [p \in Procs |-> Idle]
    /\ calls = 0
    /\ registry = <<>>
    /\ chk = NoCheck
    /\ watch = NoWatch
    /\ hist = NoHistory
    /\ vfy = NoVerify
    /\ run = NoRun

\* ---------------------------------------------------------------- helpers

P(p) == proc[p]

Goto(p, r) == proc' = [proc EXCEPT ![p] = r]

\* An error return that sends SIGTERM all the same once `current` is swapped.
FailedSignalling(p, step) ==
    [P(p) EXCEPT !.pc = "done", !.res = "err", !.failed = step,
                 !.sig = IF P(p).swapped THEN @ + 1 ELSE @]

\* The operation returns the error of step `step`.
Failed(p, step) == [P(p) EXCEPT !.pc = "done", !.res = "err", !.failed = step]

\* An environment failure may be injected while the budget lasts.
MayFail(f) == f => faults < MaxFaults

Count(f) == faults' = IF f THEN faults + 1 ELSE faults

\* Names of the previous-* links that exist.
Backups == {t \in Times : previous[t] # None}

\* sort.Strings over previous-<ts> names: ascending by timestamp.
RECURSIVE SortAsc(_)
SortAsc(S) ==
    IF S = {} THEN <<>>
    ELSE LET m == CHOOSE a \in S : \A b \in S : a <= b
         IN  <<m>> \o SortAsc(S \ {m})

getBackupSymlinks == SortAsc(Backups)

\* The file a path <dir>/<binary_name> resolves to (os.Stat follows links).
CurBin == IF current = None \/ current \notin dirs THEN NoFile ELSE files[current]

Resolve(f) == IF f.exists /\ f.c = "link" THEN CurBin ELSE f

BinaryAt(v) == IF v \in dirs THEN Resolve(files[v]) ELSE NoFile

\* A verifyBinary that looks at the header before the execute bits.
verifyBinaryHeaderFirst(f) ==
    IF ~f.exists THEN "notfound"
    ELSE IF f.c = "empty" THEN "empty"
    ELSE IF ~f.r THEN "open"
    ELSE IF f.c \in OddContents THEN "header"
    ELSE IF f.c # "elf" THEN "notelf"
    ELSE IF ~f.x THEN "notexec"
    ELSE "ok"

\* verifyBinary: the first failing check names the error.  os.Stat does not
\* tell a directory from a file; os.Open fails on what the process may not
\* read; io.ReadFull fails on a directory and on a file of fewer than four
\* bytes.
verifyBinary(f) ==
    IF ~f.exists THEN "notfound"
    ELSE IF f.c = "empty" THEN "empty"
    ELSE IF ~f.x THEN "notexec"
    ELSE IF ~f.r THEN "open"
    ELSE IF f.c \in OddContents THEN "header"
    ELSE IF f.c # "elf" THEN "notelf"
    ELSE "ok"

\* A target that is not the version directory just created (a path that does
\* not resolve from data_dir).
versionDirElsewhere(v) == "elsewhere"

\* The link target Update writes: versionDir = data_dir/versions/<version>.
versionDir(v) == v

\* ------------------------------------------------------------------ clock

Tick ==
    /\ now < MaxTime
    /\ now' = now + 1
    /\ UNCHANGED <<faults, fs, proc>>

\* ----------------------------------------------------------------- Update

StartUpdate(p, v) ==
    /\ P(p).pc = "idle"
    /\ Goto(p, [Idle EXCEPT !.pc = "u_mkroot", !.op = "update", !.ver = v,
                 !.pre = [cur |-> current, prev |-> previous, bin |-> binpath,
                         root |-> dataDir, dirs |-> dirs,
                         tmpcur |-> tmpcur, stray |-> stray]])
    /\ UNCHANGED <<now, faults, fs>>

\* os.MkdirAll(versionsDir)
U_MkRoot(p) ==
    /\ P(p).pc = "u_mkroot"
    /\ \E f \in BOOLEAN :
        /\ MayFail(f) /\ Count(f)
        /\ IF f
           THEN /\ Goto(p, Failed(p, "mkdir"))
                /\ UNCHANGED dataDir
           ELSE /\ dataDir' = TRUE
                /\ Goto(p, [P(p) EXCEPT !.pc = "u_mkdir"])
    /\ UNCHANGED <<now, dirs, files, current, previous, tmpcur, stray, binpath>>

\* os.MkdirAll(versionDir)
U_MkDir(p) ==
    /\ P(p).pc = "u_mkdir"
    /\ \E f \in BOOLEAN :
        /\ MayFail(f) /\ Count(f)
        /\ IF f
           THEN /\ Goto(p, Failed(p, "mkdir"))
                /\ UNCHANGED dirs
           ELSE /\ dirs' = dirs \cup {P(p).ver}
                /\ Goto(p, [P(p) EXCEPT !.pc = "u_copy"])
    /\ UNCHANGED <<now, dataDir, files, current, previous, tmpcur, stray, binpath>>

\* A download that replaces the file by a new one, not yet executable.
createModeFresh(old) == FALSE

\* The execute bit of the file oras.Copy opens for writing: an existing file
\* is truncated in place and keeps its mode, a new one has no execute bit.
createMode(old) == old.exists /\ old.x

\* DownloadUpdate, oras.Copy into the file store: the registry refuses
\* (unreachable, unknown tag) before anything is written, or the file is
\* created; an existing file is truncated in place and keeps its mode.
U_Copy(p) ==
    /\ P(p).pc = "u_copy"
    /\ \E reach \in BOOLEAN :
        IF reach
        THEN /\ files' = [files EXCEPT ![P(p).ver] =
                    [exists |-> TRUE, x |-> createMode(@), r |-> TRUE, c |-> "empty"]]
             /\ Goto(p, [P(p) EXCEPT !.pc = "u_write"])
        ELSE /\ Goto(p, Failed(p, "registry"))
             /\ UNCHANGED files
    /\ UNCHANGED <<now, faults, dataDir, dirs, current, previous, tmpcur, stray, binpath>>

\* oras.Copy writes the blob; it ends with the artifact's content or fails
\* part-way leaving what was written.
U_Write(p) ==
    /\ P(p).pc = "u_write"
    /\ \E c \in Payloads, ok \in BOOLEAN :
        /\ files' = [files EXCEPT ![P(p).ver].c = c]
        /\ Goto(p, IF ok THEN [P(p) EXCEPT !.pc = "u_chmod"] ELSE Failed(p, "download"))
    /\ UNCHANGED <<now, faults, dataDir, dirs, current, previous, tmpcur, stray, binpath>>

\* os.Chmod(binaryPath, 0755)
U_Chmod(p) ==
    /\ P(p).pc = "u_chmod"
    /\ \E f \in BOOLEAN :
        /\ MayFail(f) /\ Count(f)
        /\ IF f
           THEN /\ Goto(p, Failed(p, "download"))
                /\ UNCHANGED files
           ELSE /\ files' = [files EXCEPT ![P(p).ver].x = TRUE]
                /\ Goto(p, [P(p) EXCEPT !.pc = "u_verify"])
    /\ UNCHANGED <<now, dataDir, dirs, current, previous, tmpcur, stray, binpath>>

\* Update going on after a failed verification.
U_VerifyIgnored(p) ==
    /\ P(p).pc = "u_verify"
    /\ Goto(p, [P(p) EXCEPT !.pc = "u_lstat",
                             !.verified = (verifyBinary(BinaryAt(P(p).ver)) = "ok")])
    /\ UNCHANGED <<now, faults, fs>>

\* verifyBinary(binaryPath)
U_Verify(p) ==
    /\ P(p).pc = "u_verify"
    /\ Goto(p, IF verifyBinary(BinaryAt(P(p).ver)) = "ok"
               THEN [P(p) EXCEPT !.pc = "u_lstat", !.verified = TRUE]
               ELSE Failed(p, "verify"))
    /\ UNCHANGED <<now, faults, fs>>

\* os.Lstat(currentLink); the timestamp; os.Readlink(currentLink)
U_Lstat(p) ==
    /\ P(p).pc = "u_lstat"
    /\ Goto(p, IF current # None
               THEN [P(p) EXCEPT !.pc = "u_backup", !.ts = now, !.target = current]
               ELSE [P(p) EXCEPT !.pc = "u_tmplink"])
    /\ UNCHANGED <<now, faults, fs>>

\* An Update that goes on to the swap without making the backup link.
U_BackupSkipped(p) ==
    /\ P(p).pc = "u_backup"
    /\ Goto(p, [P(p) EXCEPT !.pc = "u_tmplink"])
    /\ UNCHANGED <<now, faults, fs>>

\* os.Symlink(target, backupLink): EEXIST when previous-<ts> is there.
U_Backup(p) ==
    /\ P(p).pc = "u_backup"
    /\ \E f \in BOOLEAN :
        /\ MayFail(f) /\ Count(f)
        /\ IF f \/ previous[P(p).ts] # None
           THEN /\ Goto(p, Failed(p, "backup"))
                /\ UNCHANGED previous
           ELSE /\ previous' = [previous EXCEPT ![P(p).ts] = P(p).target]
                /\ Goto(p, [P(p) EXCEPT !.pc = "u_tmplink"])
    /\ UNCHANGED <<now, dataDir, dirs, files, current, tmpcur, stray, binpath>>

\* os.Symlink(versionDir, current.tmp.<unix seconds>)
U_TmpLink(p) ==
    /\ P(p).pc = "u_tmplink"
    /\ \E f \in BOOLEAN :
        /\ MayFail(f) /\ Count(f)
        /\ IF f \/ tmpcur[now] # None
           THEN /\ Goto(p, Failed(p, "tmplink"))
                /\ UNCHANGED tmpcur
           ELSE /\ tmpcur' = [tmpcur EXCEPT ![now] = versionDir(P(p).ver)]
                /\ Goto(p, [P(p) EXCEPT !.pc = "u_rename", !.tmp = now])
    /\ UNCHANGED <<now, dataDir, dirs, files, current, previous, stray, binpath>>

\* An Update that returns the error of the rename without removing tempLink.
U_RenameNoCleanup(p) ==
    /\ P(p).pc = "u_rename"
    /\ \E f \in BOOLEAN :
        /\ MayFail(f) /\ Count(f)
        /\ IF f
           THEN /\ Goto(p, [Failed(p, "rename") EXCEPT !.tmp = 0])
                /\ UNCHANGED <<current, tmpcur>>
           ELSE /\ current' = tmpcur[P(p).tmp]
                /\ tmpcur' = [tmpcur EXCEPT ![P(p).tmp] = None]
                /\ Goto(p, [P(p) EXCEPT !.pc = "b_stat", !.tmp = 0, !.swapped = TRUE])
    /\ UNCHANGED <<now, dataDir, dirs, files, previous, stray, binpath>>

\* os.Rename(tempLink, currentLink); on error os.Remove(tempLink), whose
\* own error is dropped (left: the link stayed).
U_Rename(p) ==
    /\ P(p).pc = "u_rename"
    /\ \E f \in BOOLEAN, removed \in BOOLEAN :
        /\ MayFail(f) /\ Count(f)
        /\ IF f
           THEN /\ tmpcur' = IF removed THEN [tmpcur EXCEPT ![P(p).tmp] = None] ELSE tmpcur
                /\ Goto(p, [Failed(p, "rename") EXCEPT !.tmp = 0, !.left = ~removed])
                /\ UNCHANGED current
           ELSE /\ removed
                /\ current' = tmpcur[P(p).tmp]
                /\ tmpcur' = [tmpcur EXCEPT ![P(p).tmp] = None]
                /\ Goto(p, [P(p) EXCEPT !.pc = "b_stat", !.tmp = 0, !.swapped = TRUE])
    /\ UNCHANGED <<now, dataDir, dirs, files, previous, stray, binpath>>

\* ------------------------------------------------------- updateBinSymlink

\* Where the caller continues after updateBinSymlink returned nil.
AfterBin(p) == IF P(p).op = "update" THEN "u_scan" ELSE "r_remove"

\* os.Stat(currentBinary): follows `current`.
B_Stat(p) ==
    /\ P(p).pc = "b_stat"
    /\ Goto(p, IF CurBin.exists
               THEN [P(p) EXCEPT !.pc = "b_lstat"]
               ELSE Failed(p, "binlink"))
    /\ UNCHANGED <<now, faults, fs>>

\* os.Lstat(s.binPath): a regular file is a legacy installation.
B_Lstat(p) ==
    /\ P(p).pc = "b_lstat"
    /\ Goto(p, [P(p) EXCEPT !.pc = IF binpath = "regular" THEN "m_mkdir" ELSE "b_tmplink"])
    /\ UNCHANGED <<now, faults, fs>>

\* migrateLegacyBinary: os.MkdirAll(legacyVersionDir)
M_MkDir(p) ==
    /\ P(p).pc = "m_mkdir"
    /\ \E f \in BOOLEAN :
        /\ MayFail(f) /\ Count(f)
        /\ IF f
           THEN /\ Goto(p, Failed(p, "migrate"))
                /\ UNCHANGED dirs
           ELSE /\ dirs' = dirs \cup {"legacy"}
                /\ Goto(p, [P(p) EXCEPT !.pc = "m_rename"])
    /\ UNCHANGED <<now, dataDir, files, current, previous, tmpcur, stray, binpath>>

\* migrateLegacyBinary: os.Rename(s.binPath, legacyBinaryPath) moves whatever
\* is at bin_path (ENOENT when nothing is) and replaces the destination.
M_Rename(p) ==
    /\ P(p).pc = "m_rename"
    /\ \E f \in BOOLEAN :
        /\ MayFail(f) /\ Count(f)
        /\ IF f \/ binpath = "absent"
           THEN /\ Goto(p, Failed(p, "migrate"))
                /\ UNCHANGED <<files, binpath>>
           ELSE /\ files' = [files EXCEPT !["legacy"] =
                      IF binpath = "regular" THEN LegacyFile
                      ELSE [exists |-> TRUE, x |-> TRUE, r |-> TRUE, c |-> "link"]]
                /\ binpath' = "absent"
                /\ Goto(p, [P(p) EXCEPT !.pc = "m_backup"])
    /\ UNCHANGED <<now, dataDir, dirs, current, previous, tmpcur, stray>>

\* migrateLegacyBinary: os.Symlink(legacyVersionDir, previous-<now>); an
\* error is logged and the migration goes on.
M_Backup(p) ==
    /\ P(p).pc = "m_backup"
    /\ \E f \in BOOLEAN :
        /\ MayFail(f) /\ Count(f)
        /\ IF f \/ previous[now] # None
           THEN /\ Goto(p, [P(p) EXCEPT !.pc = "b_tmplink", !.warn = @ \cup {"legacy"}])
                /\ UNCHANGED previous
           ELSE /\ previous' = [previous EXCEPT ![now] = "legacy"]
                /\ Goto(p, [P(p) EXCEPT !.pc = "b_tmplink"])
    /\ UNCHANGED <<now, dataDir, dirs, files, current, tmpcur, stray, binpath>>

\* os.Symlink(currentBinary, <bin_path>.tmp.<unix nanoseconds>)
B_TmpLink(p) ==
    /\ P(p).pc = "b_tmplink"
    /\ \E f \in BOOLEAN :
        /\ MayFail(f) /\ Count(f)
        /\ Goto(p, IF f THEN Failed(p, "binlink")
                   ELSE [P(p) EXCEPT !.pc = "b_rename", !.btmp = TRUE])
    /\ UNCHANGED <<now, fs>>

\* An updateBinSymlink that puts `current` back when its rename fails.
B_RenameReverting(p) ==
    /\ P(p).pc = "b_rename"
    /\ \E f \in BOOLEAN :
        /\ MayFail(f) /\ Count(f)
        /\ IF f
           THEN /\ current' = P(p).pre.cur
                /\ Goto(p, [Failed(p, "binlink") EXCEPT !.btmp = FALSE])
                /\ UNCHANGED binpath
           ELSE /\ binpath' = "symlink"
                /\ Goto(p, [P(p) EXCEPT !.pc = AfterBin(p), !.btmp = FALSE])
                /\ UNCHANGED current
    /\ UNCHANGED <<now, dataDir, dirs, files, previous, tmpcur, stray>>

\* os.Rename(tempBinLink, s.binPath); on error os.Remove(tempBinLink).
B_Rename(p) ==
    /\ P(p).pc = "b_rename"
    /\ \E f \in BOOLEAN, removed \in BOOLEAN :
        /\ MayFail(f) /\ Count(f)
        /\ IF f
           THEN /\ stray' = IF removed THEN stray ELSE [stray EXCEPT !.bin = TRUE]
                /\ Goto(p, [Failed(p, "binlink") EXCEPT !.btmp = FALSE, !.left = ~removed])
                /\ UNCHANGED binpath
           ELSE /\ removed
                /\ binpath' = "symlink"
                /\ Goto(p, [P(p) EXCEPT !.pc = AfterBin(p), !.btmp = FALSE])
                /\ UNCHANGED stray
    /\ UNCHANGED <<now, dataDir, dirs, files, current, previous, tmpcur>>

\* ------------------------------------------------------ cleanupOldBackups

\* A rotation that drops the newest names instead: backups[keep:]
toRemoveNewest(backups, keep) ==
    IF Len(backups) > keep THEN SubSeq(backups, keep + 1, Len(backups)) ELSE <<>>

\* backups[:len(backups)-keep]
toRemove(backups, keep) ==
    IF Len(backups) > keep THEN SubSeq(backups, 1, Len(backups) - keep) ELSE <<>>

\* cleanupOldBackups(3): getBackupSymlinks; a scan error is logged by Update.
U_Scan(p) ==
    /\ P(p).pc = "u_scan"
    /\ \E f \in BOOLEAN :
        /\ MayFail(f) /\ Count(f)
        /\ LET rm == IF f THEN <<>> ELSE toRemove(getBackupSymlinks, KEEP)
           IN  Goto(p, [P(p) EXCEPT !.pc = IF rm = <<>> THEN "u_kill" ELSE "u_rm", !.rm = rm,
                                    !.warn = IF f THEN @ \cup {"cleanup"} ELSE @])
    /\ UNCHANGED <<now, fs>>

\* cleanupOldBackups: os.Remove(backup) for the next name; an error is logged.
U_Rm(p) ==
    /\ P(p).pc = "u_rm"
    /\ \E f \in BOOLEAN :
        /\ MayFail(f) /\ Count(f)
        /\ previous' = IF f THEN previous ELSE [previous EXCEPT ![Head(P(p).rm)] = None]
        /\ LET rest == Tail(P(p).rm)
           IN  Goto(p, [P(p) EXCEPT !.pc = IF rest = <<>> THEN "u_kill" ELSE "u_rm", !.rm = rest,
                                    !.warn = IF f \/ previous[Head(P(p).rm)] = None
                                             THEN @ \cup {"remove"} ELSE @])
    /\ UNCHANGED <<now, dataDir, dirs, files, current, tmpcur, stray, binpath>>

\* Returning nil without the signal.
KillSkipped(p) ==
    /\ P(p).pc \in {"u_kill", "r_kill"}
    /\ Goto(p, [P(p) EXCEPT !.pc = "done", !.res = "ok"])
    /\ UNCHANGED <<now, faults, fs>>

\* syscall.Kill(pid, SIGTERM), then return nil.
Kill(p) ==
    /\ P(p).pc \in {"u_kill", "r_kill"}
    /\ \E f \in BOOLEAN :
        /\ MayFail(f) /\ Count(f)
        /\ Goto(p, IF f THEN Failed(p, "kill")
                   ELSE [P(p) EXCEPT !.pc = "done", !.res = "ok", !.sig = @ + 1])
    /\ UNCHANGED <<now, fs>>

\* --------------------------------------------------------------- Rollback

StartRollback(p) ==
    /\ P(p).pc = "idle"
    /\ Goto(p, [Idle EXCEPT !.pc = "r_scan", !.op = "rollback", !.last = P(p).last,
                 !.pre = [cur |-> current, prev |-> previous, bin |-> binpath,
                         root |-> dataDir, dirs |-> dirs,
                         tmpcur |-> tmpcur, stray |-> stray]])
    /\ UNCHANGED <<now, faults, fs>>

\* A Rollback that takes the backup before the latest: backups[len(backups)-2]
backupBeforeLatest(backups) == backups[IF Len(backups) > 1 THEN Len(backups) - 1 ELSE 1]

\* A Rollback that takes the oldest backup instead: backups[0]
oldestBackup(backups) == backups[1]

\* backups[len(backups)-1]
latestBackup(backups) == backups[Len(backups)]

\* A Rollback that does not look at the number of backups and goes on to
\* signal the process.
R_ScanUnchecked(p) ==
    /\ P(p).pc = "r_scan"
    /\ Goto(p, [P(p) EXCEPT !.pc = "r_kill"])
    /\ UNCHANGED <<now, faults, fs>>

\* getBackupSymlinks (os.ReadDir fails when data_dir is missing) and the
\* choice of the most recent backup.
R_Scan(p) ==
    /\ P(p).pc = "r_scan"
    /\ \E f \in BOOLEAN :
        /\ MayFail(f) /\ Count(f)
        /\ Goto(p, IF f \/ ~dataDir THEN Failed(p, "scan")
                   ELSE IF Len(getBackupSymlinks) = 0 THEN Failed(p, "nobackup")
                   ELSE [P(p) EXCEPT !.pc = "r_readlink", !.bk = latestBackup(getBackupSymlinks)])
    /\ UNCHANGED <<now, fs>>

\* os.Readlink(latestBackup)
R_Readlink(p) ==
    /\ P(p).pc = "r_readlink"
    /\ Goto(p, IF previous[P(p).bk] = None THEN Failed(p, "readlink")
               ELSE [P(p) EXCEPT !.pc = "r_verify", !.target = previous[P(p).bk]])
    /\ UNCHANGED <<now, faults, fs>>

\* verifyBinary(filepath.Join(target, BinaryName))
R_Verify(p) ==
    /\ P(p).pc = "r_verify"
    /\ Goto(p, IF verifyBinary(BinaryAt(P(p).target)) = "ok"
               THEN [P(p) EXCEPT !.pc = "r_tmplink", !.verified = TRUE]
               ELSE Failed(p, "verify"))
    /\ UNCHANGED <<now, faults, fs>>

\* os.Symlink(target, current.tmp.<unix nanoseconds>): the name is new.
R_TmpLink(p) ==
    /\ P(p).pc = "r_tmplink"
    /\ \E f \in BOOLEAN :
        /\ MayFail(f) /\ Count(f)
        /\ Goto(p, IF f THEN Failed(p, "tmplink")
                   ELSE [P(p) EXCEPT !.pc = "r_rename", !.ntmp = P(p).target])
    /\ UNCHANGED <<now, fs>>

\* os.Rename(tempLink, currentLink); on error os.Remove(tempLink).
R_Rename(p) ==
    /\ P(p).pc = "r_rename"
    /\ \E f \in BOOLEAN, removed \in BOOLEAN :
        /\ MayFail(f) /\ Count(f)
        /\ IF f
           THEN /\ stray' = IF removed THEN stray
                            ELSE [stray EXCEPT !.cur = @ \cup {P(p).ntmp}]
                /\ Goto(p, [Failed(p, "rename") EXCEPT !.ntmp = None, !.left = ~removed])
                /\ UNCHANGED current
           ELSE /\ removed
                /\ current' = P(p).ntmp
                /\ Goto(p, [P(p) EXCEPT !.pc = "b_stat", !.ntmp = None, !.swapped = TRUE])
                /\ UNCHANGED stray
    /\ UNCHANGED <<now, dataDir, dirs, files, previous, tmpcur, binpath>>

\* os.Remove(latestBackup); an error is logged.
R_Remove(p) ==
    /\ P(p).pc = "r_remove"
    /\ \E f \in BOOLEAN :
        /\ MayFail(f) /\ Count(f)
        /\ previous' = IF f THEN previous ELSE [previous EXCEPT ![P(p).bk] = None]
        /\ Goto(p, [P(p) EXCEPT !.pc = "r_kill",
                                 !.warn = IF f \/ previous[P(p).bk] = None
                                          THEN @ \cup {"remove"} ELSE @])
    /\ UNCHANGED <<now, dataDir, dirs, files, current, tmpcur, stray, binpath>>

\* ------------------------------------------------------------- behaviours

\* The two newest names of a set of backup names (0 when missing).
Newest(S) == IF S = {} THEN 0 ELSE CHOOSE a \in S : \A b \in S : b <= a

\* What the caller remembers of the call that returns.
Remember(r) ==
    IF r.op = "rollback" /\ r.res = "ok"
    THEN LET S  == {t \in Times : r.pre.prev[t] # None}
             n1 == Newest(S)
             n2 == Newest(S \ {n1})
         IN  [ok  |-> "remove" \notin r.warn /\ r.pre.bin # "regular",
              n1  |-> n1, n2 |-> n2,
              tgt |-> IF n2 = 0 THEN None ELSE r.pre.prev[n2]]
    ELSE NoLast

\* The call has returned to its caller.
Return(p) ==
    /\ P(p).pc = "done"
    /\ Goto(p, [Idle EXCEPT !.last = Remember(P(p))])
    /\ UNCHANGED <<now, faults, fs>>

Step(p) ==
    \/ U_MkRoot(p) \/ U_MkDir(p) \/ U_Copy(p) \/ U_Write(p) \/ U_Chmod(p)
    \/ U_Verify(p) \/ U_Lstat(p) \/ U_Backup(p) \/ U_TmpLink(p) \/ U_Rename(p)
    \/ B_Stat(p) \/ B_Lstat(p) \/ M_MkDir(p) \/ M_Rename(p) \/ M_Backup(p)
    \/ B_TmpLink(p) \/ B_Rename(p)
    \/ U_Scan(p) \/ U_Rm(p) \/ Kill(p)
    \/ R_Scan(p) \/ R_Readlink(p) \/ R_Verify(p) \/ R_TmpLink(p) \/ R_Rename(p)
    \/ R_Remove(p)
    \/ Return(p)

\* No other caller is inside Update or Rollback.
Quiet(p) == \A q \in Procs \ {p} : proc[q].pc = "idle"

\* Update arrives over IPC; Rollback over IPC or from the crash-loop watcher.
Call(p) ==
    \/ \E v \in Tags : p = "ipc" /\ StartUpdate(p, v)
    \/ StartRollback(p)

\* One call at a time: any sequence of Update and Rollback calls.
Next ==
    \/ Tick /\ UNCHANGED <<calls, aux>>
    \/ Quiet("ipc") /\ Call("ipc") /\ UNCHANGED <<calls, aux>>
    \/ \E p \in Procs : Step(p) /\ UNCHANGED <<calls, aux>>

Spec == Init /\ [][Next]_vars

\* Calls as the supervisor makes them: each caller on its own goroutine,
\* nothing in Update or Rollback waiting for the other.
NextConc ==
    \/ Tick /\ UNCHANGED <<calls, aux>>
    \/ \E p \in Procs : calls < MaxCalls /\ Call(p) /\ calls' = calls + 1 /\ UNCHANGED aux
    \/ \E p \in Procs : Step(p) /\ UNCHANGED <<calls, aux>>

\* A layout three sequential Updates leave behind (legacy install, then
\* v1, v2, v1, one per second).
Installed ==
    /\ now = 3
    /\ dataDir = TRUE
    /\ dirs = Vers
    /\ files = [v \in Vers |-> GoodFile]
    /\ current = "v1"
    /\ previous = [t \in Times |-> CASE t = 1 -> "legacy" [] t = 2 -> "v1"
                                     [] t = 3 -> "v2" [] OTHER -> None]
    /\ binpath = "symlink"

Fresh ==
    /\ now = 1
    /\ dataDir = FALSE
    /\ dirs = {}
    /\ files = [v \in Vers |-> NoFile]
    /\ current = None
    /\ previous = [t \in Times |-> None]
    /\ binpath \in {"absent", "regular"}

\* The concurrent runs start from a fresh, a legacy or an installed layout.
InitConc ==
    /\ Fresh \/ Installed
    /\ faults = 0
    /\ tmpcur = [t \in Times |-> None]
    /\ stray = [cur |-> {}, bin |-> FALSE]
    /\ proc = [p \in Procs |-> Idle]
    /\ calls = 0
    /\ registry = <<>>
    /\ chk = NoCheck
    /\ watch = NoWatch
    /\ hist = NoHistory
    /\ vfy = NoVerify
    /\ run = NoRun

SpecConc == InitConc /\ [][NextConc]_vars

\* ------------------------------------------------------- CheckForUpdate

\* A registry tag: a dotted triple of numbers or a word.
SemTag(a, b, c) == [word |-> "", num |-> <<a, b, c>>]

WordTag(w) == [word |-> w, num |-> <<>>]

\* Tags a repository holds: three releases, and the `legacy` word.
TagPool == {SemTag(1, 2, 3), SemTag(1, 2, 4), SemTag(1, 10, 0), WordTag("legacy")}

\* semver.NewVersion(tag): a word does not parse.
NewVersion(tag) ==
    IF tag.word = "" /\ Len(tag.num) = 3
    THEN [ok |-> TRUE, v |-> tag.num]
    ELSE [ok |-> FALSE, v |-> <<>>]

\* Version.GreaterThan: precedence by major, minor, patch.
GreaterThan(a, b) ==
    \/ a[1] > b[1]
    \/ a[1] = b[1] /\ a[2] > b[2]
    \/ a[1] = b[1] /\ a[2] = b[2] /\ a[3] > b[3]

Parses(tag) == NewVersion(tag).ok

\* Client.Versions: the tags that parse, in the order they were listed.
Versions(tags) ==
    LET sel == SelectSeq(tags, Parses)
    IN  [i \in 1..Len(sel) |-> NewVersion(sel[i]).v]

\* Supervisor.CheckForUpdate: listing the tags may fail; the last version of
\* the list is taken as the latest.
CheckForUpdate ==
    /\ chk.pc = "idle"
    /\ \E f \in BOOLEAN :
        LET allVersions == Versions(registry)
            latest      == allVersions[Len(allVersions)]
        IN  chk' = IF f THEN [chk EXCEPT !.pc = "done", !.err = "list"]
                   ELSE IF Len(allVersions) = 0 THEN [chk EXCEPT !.pc = "done", !.err = "noversions"]
                   ELSE [chk EXCEPT !.pc = "done", !.latest = latest, !.all = allVersions,
                                    !.update = IF GreaterThan(latest, chk.cur) THEN latest ELSE <<>>]
    /\ UNCHANGED <<now, faults, fs, proc, calls, registry, watch, hist, vfy, run>>

\* The call has returned to its caller.
CheckReturn ==
    /\ chk.pc = "done"
    /\ chk' = [NoCheck EXCEPT !.cur = chk.cur]
    /\ UNCHANGED <<now, faults, fs, proc, calls, registry, watch, hist, vfy, run>>

\* Tag lists of up to MaxTags tags.
TagLists == UNION {[1..n -> TagPool] : n \in 0..MaxTags}

\* Any repository, any running version; nothing installed.
InitCheck ==
    /\ Fresh
    /\ faults = 0
    /\ tmpcur = [t \in Times |-> None]
    /\ stray = [cur |-> {}, bin |-> FALSE]
    /\ proc = [p \in Procs |-> Idle]
    /\ calls = 0
    /\ registry \in TagLists
    /\ watch = NoWatch
    /\ hist = NoHistory
    /\ vfy = NoVerify
    /\ run = NoRun
    /\ chk \in {[NoCheck EXCEPT !.cur = v] : v \in {<<1, 2, 3>>, <<1, 2, 4>>}}

NextCheck == CheckForUpdate \/ CheckReturn

SpecCheck == InitCheck /\ [][NextCheck]_vars

\* --------------------------------------------------- crash-loop watcher

\* The unclean exits of the list that fall in the window ending at time t.
InWindow(exits, t) == SelectSeq(exits, LAMBDA e : t - e < WindowT)

\* Time passes while a flaky child runs.
W_Tick ==
    /\ watch.st = "running"
    /\ watch.kind = "flaky"
    /\ watch.t + Quantum <= MaxWatch
    /\ watch' = [watch EXCEPT !.t = @ + Quantum]
    /\ UNCHANGED <<now, faults, fs, proc, calls, registry, chk, hist, vfy, run>>

\* Clean exit (status 0): the supervisor shuts down with the same status.
W_CleanExit ==
    /\ watch.st = "running"
    /\ watch.kind = "flaky"
    /\ watch' = [watch EXCEPT !.st = "stopped", !.code = "exit0"]
    /\ UNCHANGED <<now, faults, fs, proc, calls, registry, chk, hist, vfy, run>>

\* Unclean exit: with fewer than CrashN unclean exits in the window the
\* child is respawned, otherwise the watcher invokes Rollback.
W_UncleanExit ==
    /\ watch.st = "running"
    /\ LET seen == InWindow(Append(watch.exits, watch.t), watch.t)
       IN  IF Len(seen) >= CrashN
           THEN /\ watch' = [watch EXCEPT !.st = "rollback", !.exits = seen]
                /\ StartRollback("watcher")
                /\ UNCHANGED <<calls, registry, chk, hist, vfy, run>>
           ELSE /\ watch' = [watch EXCEPT !.exits = seen]
                /\ UNCHANGED <<now, faults, fs, proc, calls, registry, chk, hist, vfy, run>>

\* The steps of the Rollback the watcher invoked.
RollbackStep(p) ==
    \/ R_Scan(p) \/ R_Readlink(p) \/ R_Verify(p) \/ R_TmpLink(p) \/ R_Rename(p)
    \/ B_Stat(p) \/ B_Lstat(p) \/ B_TmpLink(p) \/ B_Rename(p)
    \/ R_Remove(p) \/ Kill(p)

\* Rollback returned: its SIGTERM ends the supervisor, or, when it failed,
\* the supervisor exits with a non-zero status.
W_RollbackReturned ==
    /\ watch.st = "rollback"
    /\ Return("watcher")
    /\ watch' = [watch EXCEPT !.st = "stopped",
                              !.code = IF P("watcher").res = "ok" THEN "sigterm" ELSE "exit1"]
    /\ UNCHANGED <<calls, registry, chk, hist, vfy, run>>

\* A legacy installation on which v1 was installed, then v2 a second later;
\* the child runs v2.
InstalledTwo ==
    /\ now = 2
    /\ dataDir = TRUE
    /\ dirs = Vers
    /\ files = [v \in Vers |-> GoodFile]
    /\ current = "v2"
    /\ previous = [t \in Times |-> CASE t = 1 -> "legacy" [] t = 2 -> "v1" [] OTHER -> None]
    /\ binpath = "symlink"

InitWatch ==
    /\ InstalledTwo
    /\ faults = 0
    /\ tmpcur = [t \in Times |-> None]
    /\ stray = [cur |-> {}, bin |-> FALSE]
    /\ proc = [p \in Procs |-> Idle]
    /\ calls = 0
    /\ registry = <<>>
    /\ chk = NoCheck
    /\ hist = NoHistory
    /\ vfy = NoVerify
    /\ run = NoRun
    /\ watch \in {[NoWatch EXCEPT !.kind = k] : k \in {"crashing", "flaky"}}

NextWatch ==
    \/ W_Tick
    \/ W_CleanExit
    \/ W_UncleanExit
    \/ RollbackStep("watcher") /\ UNCHANGED <<calls, aux>>
    \/ W_RollbackReturned

\* The child exits, the watcher and its Rollback go on; time need not pass.
SpecWatch ==
    /\ InitWatch
    /\ [][NextWatch]_vars
    /\ WF_vars(W_UncleanExit)
    /\ WF_vars(RollbackStep("watcher") /\ UNCHANGED <<calls, aux>>)
    /\ WF_vars(W_RollbackReturned)

\* --------------------------------------------------------------- History

\* A directory under versions/ that no Update made.
Junk == "junk"

\* filepath.Base(target) as a tag: the releases, and the words.
versionName(target) ==
    CASE target = "v1" -> SemTag(1, 2, 3)
      [] target = "v2" -> SemTag(1, 2, 4)
      [] OTHER -> WordTag(target)

\* semver.MustParse("0.0.0-legacy")
LegacyVersion == [num |-> <<0, 0, 0>>, pre |-> "legacy"]

\* parsePreviousTimestamp: the time in a name previous-<ts>, the zero time
\* for any other name.
parsePreviousTimestamp(name) == IF name \in Times THEN name ELSE 0

\* A History that orders by Before.
Before(a, b) == a < b

\* Time.After
After(a, b) == a > b

\* sort.Slice(history, less) with less(i, j) = history[i].LastInstalled
\* .After(history[j].LastInstalled)
RECURSIVE SortSlice(_)
SortSlice(h) ==
    IF h = <<>> THEN <<>>
    ELSE LET i == CHOOSE k \in 1..Len(h) :
                      \A j \in 1..Len(h) : ~After(h[j].LastInstalled, h[k].LastInstalled)
         IN  <<h[i]>> \o SortSlice(SubSeq(h, 1, i - 1) \o SubSeq(h, i + 1, Len(h)))

\* The record History makes of one backup; keep is FALSE when it skips it.
HistoricVersion(backup) ==
    LET name == versionName(previous[backup])
        v    == NewVersion(name)
    IN  [keep          |-> v.ok \/ name.word = "legacy",
         Version       |-> IF v.ok THEN [num |-> v.v, pre |-> ""] ELSE LegacyVersion,
         LastInstalled |-> parsePreviousTimestamp(backup)]

\* The list History builds and sorts.
HistoryList ==
    LET backups == getBackupSymlinks
        all     == [i \in 1..Len(backups) |-> HistoricVersion(backups[i])]
        kept    == SelectSeq(all, LAMBDA e : e.keep)
    IN  SortSlice([i \in 1..Len(kept) |->
                      [Version |-> kept[i].Version, LastInstalled |-> kept[i].LastInstalled]])

\* Supervisor.History: the empty list when the scan fails.
History ==
    /\ hist.n < 2
    /\ \E f \in BOOLEAN :
        /\ MayFail(f) /\ Count(f)
        /\ hist' = [n |-> hist.n + 1,
                    out |-> IF f THEN <<>> ELSE HistoryList, scanned |-> ~f,
                    before |-> hist.out, scannedBefore |-> hist.scanned]
    /\ UNCHANGED <<now, fs, proc, calls, registry, chk, watch, vfy, run>>

\* Any set of previous-* links, to releases, to versions/legacy and to
\* directories of other names.
InitHist ==
    /\ now = MaxTime
    /\ faults = 0
    /\ dataDir = TRUE
    /\ dirs = Vers \cup {Junk}
    /\ files = [v \in Vers |-> GoodFile]
    /\ current \in Tags
    /\ previous \in [Times -> Vers \cup {Junk, None}]
    /\ tmpcur = [t \in Times |-> None]
    /\ stray = [cur |-> {}, bin |-> FALSE]
    /\ binpath = "symlink"
    /\ proc = [p \in Procs |-> Idle]
    /\ calls = 0
    /\ registry = <<>>
    /\ chk = NoCheck
    /\ watch = NoWatch
    /\ hist = NoHistory
    /\ vfy = NoVerify
    /\ run = NoRun

NextHist == History

SpecHist == InitHist /\ [][NextHist]_vars

\* ---------------------------------------------------------- verifyBinary

\* The execute bits of a mode: owner, group, other.
ExecBits == {"u", "g", "o"}

\* info.Mode()&0111 != 0
AnyExecBit(mode) == mode # {}

\* What can be at the path verifyBinary is given: nothing, or a file or a
\* directory with any execute bits, which os.Open can open (r) or not.
Paths ==
    {NoVerify.f} \cup
    {[exists |-> TRUE, x |-> AnyExecBit(m), r |-> r, c |-> c, mode |-> m] :
        m \in SUBSET ExecBits, r \in BOOLEAN,
        c \in (Contents \ {"link"}) \cup OddContents}

\* verifyBinary(path)
Verify ==
    /\ vfy.res = None
    /\ vfy' = [vfy EXCEPT !.res = verifyBinary(vfy.f)]
    /\ UNCHANGED <<now, faults, fs, proc, calls, registry, chk, watch, hist, run>>

\* The caller has the result; the path is looked at again, or another one.
VerifyReturn ==
    /\ vfy.res # None
    /\ \E f \in Paths : vfy' = [f |-> f, res |-> None]
    /\ UNCHANGED <<now, faults, fs, proc, calls, registry, chk, watch, hist, run>>

InitVerify ==
    /\ Fresh
    /\ binpath = "absent"
    /\ faults = 0
    /\ tmpcur = [t \in Times |-> None]
    /\ stray = [cur |-> {}, bin |-> FALSE]
    /\ proc = [p \in Procs |-> Idle]
    /\ calls = 0
    /\ registry = <<>>
    /\ chk = NoCheck
    /\ watch = NoWatch
    /\ hist = NoHistory
    /\ vfy \in {[f |-> f, res |-> None] : f \in Paths}
    /\ run = NoRun

NextVerify == Verify \/ VerifyReturn

SpecVerify == InitVerify /\ [][NextVerify]_vars

\* ------------------------------------------------------------------ Run

\* How userMain can end: it returns, it panics, it calls os.Exit itself.
Endings == {"returns", "panics", "exits"}

\* The constructors Run calls, each of which can fail.
Constructors == {"supervisor.New", "ipc.NewIPCServer", "ipc.NewClient"}

\* The statuses a process ends with.  exit2 is what the Go runtime uses for
\* a panic nobody recovers; exit3 stands for a status userMain chooses;
\* "returned" is Run giving control back to its caller.
Statuses == {"exit0", "exit1", "exit2", "exit3", "sigterm", "returned"}

RunUnchanged == UNCHANGED <<now, faults, fs, proc, calls, registry, chk, watch, hist, vfy>>

Exit(st) == run' = [run EXCEPT !.pc = "done", !.status = st]

\* if supervisor.IsSupervisorProcess(): the marker is absent
Run_Dispatch ==
    /\ run.pc = "start"
    /\ run' = [run EXCEPT !.pc = IF run.marker THEN "NewClient" ELSE "New"]
    /\ RunUnchanged

\* sv, err := supervisor.New(config)
Run_New ==
    /\ run.pc = "New"
    /\ IF "supervisor.New" \in run.errs
          THEN Exit("exit1")
          ELSE run' = [run EXCEPT !.pc = "NewIPCServer"]
    /\ RunUnchanged

\* server, err := ipc.NewIPCServer(sv); server.Serve()
Run_NewIPCServer ==
    /\ run.pc = "NewIPCServer"
    /\ IF "ipc.NewIPCServer" \in run.errs
          THEN Exit("exit1")
          ELSE run' = [run EXCEPT !.pc = "sv.Run"]
    /\ RunUnchanged

\* sv.Run(): the watcher loop, which ends the process with a status of its
\* own, is ended by the SIGTERM of an Update or a Rollback, or returns.
Run_Supervise ==
    /\ run.pc = "sv.Run"
    /\ \E st \in {"exit0", "exit1", "sigterm", "returned"} : Exit(st)
    /\ RunUnchanged

\* ipcClient, err = ipc.NewClient(socketPath)
Run_NewClient ==
    /\ run.pc = "NewClient"
    /\ IF "ipc.NewClient" \in run.errs
          THEN Exit("exit1")
          ELSE run' = [run EXCEPT !.pc = "userMain"]
    /\ RunUnchanged

\* runAsChild: userMain()
Child_Main ==
    /\ run.pc = "userMain"
    /\ \/ /\ run.main = "exits"
          /\ run' = [run EXCEPT !.pc = "done", !.ran = TRUE, !.status = "exit3"]
       \/ /\ run.main = "panics"
          /\ run' = [run EXCEPT !.pc = "deferred", !.ran = TRUE]
       \/ /\ run.main = "returns"
          /\ run' = [run EXCEPT !.pc = "os.Exit", !.ran = TRUE]
    /\ RunUnchanged

\* A runAsChild whose deferred function does not recover: the runtime ends
\* the process.
Child_Unrecovered ==
    /\ run.pc = "deferred"
    /\ Exit("exit2")
    /\ RunUnchanged

\* runAsChild: the deferred function, recover() and os.Exit(1)
Child_Recover ==
    /\ run.pc = "deferred"
    /\ run' = [run EXCEPT !.pc = "done", !.recovered = TRUE, !.status = "exit1"]
    /\ RunUnchanged

\* runAsChild: os.Exit(0) after userMain has returned
Child_Exit ==
    /\ run.pc = "os.Exit"
    /\ Exit("exit0")
    /\ RunUnchanged

\* The init system or the supervisor starts the binary again.
Run_Start ==
    /\ run.pc = "done"
    /\ \E m \in BOOLEAN, e \in Endings, errs \in SUBSET Constructors :
          run' = [NoRun EXCEPT !.marker = m, !.main = e, !.errs = errs]
    /\ RunUnchanged

InitRun ==
    /\ Fresh
    /\ binpath = "absent"
    /\ faults = 0
    /\ tmpcur = [t \in Times |-> None]
    /\ stray = [cur |-> {}, bin |-> FALSE]
    /\ proc = [p \in Procs |-> Idle]
    /\ calls = 0
    /\ registry = <<>>
    /\ chk = NoCheck
    /\ watch = NoWatch
    /\ hist = NoHistory
    /\ vfy = NoVerify
    /\ \E m \in BOOLEAN, e \in Endings, errs \in SUBSET Constructors :
          run = [NoRun EXCEPT !.marker = m, !.main = e, !.errs = errs]

NextRun ==
    \/ Run_Dispatch
    \/ Run_New
    \/ Run_NewIPCServer
    \/ Run_Supervise
    \/ Run_NewClient
    \/ Child_Main
    \/ Child_Recover
    \/ Child_Exit
    \/ Run_Start

SpecRun == InitRun /\ [][NextRun]_vars

\* ------------------------------------------------------------ properties

\* The call of caller p has returned / returned nil / returned an error.
Returned(p) == P(p).pc = "done"

Succeeded(p, op) == Returned(p) /\ P(p).op = op /\ P(p).res = "ok"

Errored(p, op) == Returned(p) /\ P(p).op = op /\ P(p).res = "err"

\* Names of the previous-* links that existed when p's call started.
PreBackups(p) == {t \in Times : P(p).pre.prev[t] # None}

C2_BinPathResolves ==
    binpath = "symlink" =>
        /\ current # None
        /\ current \in dirs
        /\ files[current].exists
        /\ files[current].c # "link"
        /\ files[current].x

\* C2 witness: an Update to the version `current` points at has failed in its
\* download or verification, leaving that version's file without content.
C2_Witness ==
    /\ binpath = "symlink"
    /\ Errored("ipc", "update")
    /\ P("ipc").failed \in {"download", "verify"}
    /\ P("ipc").ver = current
    /\ files[current].c = "empty"

\* C3: an Update that returns an error, whichever step failed, leaves the set
\* of previous-* links and the target of `current` as they were at the call.
C3_FailedUpdateLeavesLinks ==
    \A p \in Procs :
        Errored(p, "update") =>
            /\ previous = P(p).pre.prev
            /\ current = P(p).pre.cur

\* C4: verification comes before any mutation: an Update or Rollback that
\* returns the error of verifyBinary has left `current`, bin_path and the
\* previous-* links as they were, and a call that has renamed onto `current`
\* has verified the binary it promoted.
C4_VerifyBeforeMutation ==
    \A p \in Procs :
        /\ (Returned(p) /\ P(p).failed = "verify") =>
              /\ current = P(p).pre.cur
              /\ binpath = P(p).pre.bin
              /\ previous = P(p).pre.prev
        /\ P(p).swapped => P(p).verified

\* C4 witness: a Rollback refused the newest backup because its binary did
\* not verify.
C4_Witness ==
    /\ Returned("ipc")
    /\ P("ipc").op = "rollback"
    /\ P("ipc").failed = "verify"
    /\ P("ipc").pre.cur # None

\* C5: an Update that returns nil has left `current` pointing at versions/V and
\* bin_path a symlink to current/<binary_name>, and has sent SIGTERM exactly
\* once, as its last step (no signal is out while the call is still running).
C5_UpdateSuccess ==
    \A p \in Procs :
        P(p).op = "update" =>
            /\ P(p).sig = IF Succeeded(p, "update") THEN 1 ELSE 0
            /\ Succeeded(p, "update") =>
                  /\ current = P(p).ver
                  /\ binpath = "symlink"
                  /\ P(p).swapped
                  /\ P(p).rm = <<>>

\* C5 witness: a successful Update over an existing installation.
C5_Witness ==
    /\ Succeeded("ipc", "update")
    /\ P("ipc").pre.cur # None
    /\ P("ipc").sig = 1

\* Update's own backup step is behind it and `current` not yet renamed.
BackedUp(p) == P(p).op = "update" /\ P(p).pc \in {"u_tmplink", "u_rename"}

\* C6: a successful Update that started with `current` pointing at X has
\* created a previous-<ts> link to X before renaming `current`, and after the
\* call the newest previous-* link points at X; when `current` was absent the
\* backup step creates no link.
C6_NewestBackupIsOld ==
    \A p \in Procs :
        /\ (BackedUp(p) /\ P(p).pre.cur # None) =>
              /\ P(p).pre.prev[P(p).ts] = None
              /\ previous[P(p).ts] = P(p).pre.cur
              /\ current = P(p).pre.cur
        /\ (BackedUp(p) /\ P(p).pre.cur = None) => previous = P(p).pre.prev
        /\ (Succeeded(p, "update") /\ P(p).pre.cur # None) =>
              /\ Backups # {}
              /\ previous[Newest(Backups)] = P(p).pre.cur

\* The k largest names of a set of backup names.
TopK(S, k) == {a \in S : Cardinality({b \in S : b > a}) < k}

\* Every link that the call found and that is still there has kept its target.
SurvivorsUntouched(p) ==
    \A t \in PreBackups(p) : previous[t] # None => previous[t] = P(p).pre.prev[t]

\* The name of the link the backup step of the call made.
Made(p) == IF P(p).pre.cur # None THEN {P(p).ts} ELSE {}

\* The links that exist after a successful Update are the KEEP most recently
\* created of those it found and those it made.
RotationHolds(p) ==
    /\ Cardinality(Backups) <= KEEP
    /\ Backups = TopK(PreBackups(p) \cup Made(p) \cup Backups, KEEP)
    /\ SurvivorsUntouched(p)

\* C7 as written: after every successful Update at most three previous-*
\* links exist and they are the three most recently created.
C7_KeepsThreeNewest ==
    \A p \in Procs : Succeeded(p, "update") => RotationHolds(p)

\* The rotation of this call ran without a logged failure.
RotationClean(p) == P(p).warn \cap {"cleanup", "remove"} = {}

\* C7: after a successful Update whose rotation logged no failure at most
\* three previous-* links exist and they are the three most recently created;
\* a rotation failure never turns the Update into an error.
C7_KeepsThreeNewestUnlessLogged ==
    \A p \in Procs :
        /\ (Succeeded(p, "update") /\ RotationClean(p)) => RotationHolds(p)
        /\ (Returned(p) /\ P(p).op = "update" /\ ~RotationClean(p)) =>
              P(p).res = "ok" \/ P(p).failed = "kill"

\* A successful Update found three links, made a fourth and removed the oldest.
C7_Witness ==
    /\ Succeeded("ipc", "update")
    /\ RotationClean("ipc")
    /\ Cardinality(PreBackups("ipc")) = KEEP
    /\ Cardinality(Backups) = KEEP
    /\ Backups # PreBackups("ipc")

\* The single Rollback contract: `current` points where the newest link found
\* pointed, and of the links found only that one may be gone.
SwappedToNewest(p) ==
    LET n == Newest(PreBackups(p))
    IN  /\ n # 0
        /\ current = P(p).pre.prev[n]
        /\ \A t \in PreBackups(p) \ {n} : previous[t] = P(p).pre.prev[t]

\* C8 as written: a successful Rollback swaps `current` to the target of the
\* newest previous-* link and that link is gone afterwards, no other is.
C8_RollbackConsumesNewest ==
    \A p \in Procs :
        Succeeded(p, "rollback") =>
            /\ SwappedToNewest(p)
            /\ previous[Newest(PreBackups(p))] = None

\* This Rollback removed its link and added none by migrating a legacy binary.
ConsumedCleanly(p) == "remove" \notin P(p).warn /\ P(p).pre.bin # "regular"

\* C8: a successful Rollback swaps `current` to the target of the newest
\* previous-* link and removes no other link; the link itself is gone unless
\* its removal failed, which is logged. Two consecutive successful Rollbacks
\* that both consumed their link and migrated nothing end at the target of
\* the second newest link of the start, with both links gone.
C8_RollbackConsumesNewestUnlessLogged ==
    \A p \in Procs :
        Succeeded(p, "rollback") =>
            /\ SwappedToNewest(p)
            /\ "remove" \notin P(p).warn => previous[Newest(PreBackups(p))] = None
            /\ (ConsumedCleanly(p) /\ P(p).last.ok /\ P(p).last.n2 # 0) =>
                  /\ current = P(p).last.tgt
                  /\ previous[P(p).last.n1] = None
                  /\ previous[P(p).last.n2] = None

\* The second of two consecutive successful Rollbacks has returned, started
\* from two links with distinct targets that both differ from `current`.
C8_Witness ==
    /\ Succeeded("ipc", "rollback")
    /\ ConsumedCleanly("ipc")
    /\ P("ipc").last.ok
    /\ P("ipc").last.n2 # 0
    /\ current = P("ipc").last.tgt
    /\ P("ipc").pre.cur # current
    /\ P("ipc").pre.cur # None

\* A successful first Update of a legacy layout: bin_path was a regular file
\* and `current` was absent when the call began.
FirstLegacyUpdate(p) ==
    /\ Succeeded(p, "update")
    /\ P(p).pre.bin = "regular"
    /\ P(p).pre.cur = None

\* The old binary is at versions/legacy/<bin>, `current` points at the new
\* version and bin_path is a symlink.
LegacyMigrated(p) ==
    /\ "legacy" \in dirs
    /\ files["legacy"].exists /\ files["legacy"].x /\ files["legacy"].c = "elf"
    /\ current = P(p).ver
    /\ binpath = "symlink"

Mutating(p) ==
    \/ P(p).op = "update" /\ P(p).pc \notin {"idle", "done", "u_mkroot", "u_mkdir"}
    \/ P(p).op = "rollback" /\ P(p).pc \in {"b_stat", "b_lstat", "m_mkdir", "m_rename",
                                            "m_backup", "b_tmplink", "b_rename",
                                            "r_remove", "r_kill"}

\* C10: Update and Rollback exclude each other: no two callers are inside the
\* mutating part of a call at the same time.
C10_MutuallyExclusive ==
    \A p, q \in Procs : (p # q /\ Mutating(p)) => ~Mutating(q)

\* A call of p is in progress: a concurrent reader may look at the layout now.
InCall(p) == P(p).pc \notin {"idle", "done"}

\* C11: a reader that resolves bin_path while an Update or Rollback is in
\* progress finds the old or the new executable at every step: bin_path, when
\* it existed at the start of the call, exists at every step of the call,
\* legacy migration included.
C11_ReaderFindsBinPath ==
    \A p \in Procs :
        (InCall(p) /\ P(p).pre.bin # "absent") => binpath # "absent"

\* The versions among the listed tags.
Listed == {NewVersion(registry[i]).v : i \in {j \in 1..Len(registry) : Parses(registry[j])}}

\* C12: for every list of registry tags in any order, the version
\* CheckForUpdate takes as latest is the maximum by semver precedence of the
\* tags that parse; tags that do not parse take no part.
C12_LatestIsMaximum ==
    (chk.pc = "done" /\ chk.err = None) =>
        /\ chk.latest \in Listed
        /\ \A v \in Listed : ~GreaterThan(v, chk.latest)

\* C13: when previous-<timestamp> for the current second already exists the
\* backup is created under another name and the Update proceeds: an Update
\* never returns the error of its backup step while the name it wanted is
\* taken, and no existing previous-* link is retargeted.
C13_BackupCollisionTransparent ==
    \A p \in Procs :
        /\ (Errored(p, "update") /\ P(p).failed = "backup") => previous[P(p).ts] = None
        /\ (InCall(p) \/ Returned(p)) => SurvivorsUntouched(p)

WatcherPolicy ==
    /\ watch.st = "running" =>
          /\ Len(InWindow(watch.exits, watch.t)) < CrashN
          /\ P("watcher").pc = "idle"
    /\ P("watcher").pc # "idle" =>
          /\ watch.st = "rollback"
          /\ P("watcher").op = "rollback"
          /\ Len(InWindow(watch.exits, watch.t)) >= CrashN
    /\ watch.code = "exit0" => watch.st = "stopped" /\ current = "v2"
    /\ watch.code = "sigterm" => watch.st = "stopped" /\ current = "v1"

\* C15: with CrashN or more unclean exits in the window the watcher invokes
\* Rollback instead of respawning, with fewer it respawns, a clean exit stops
\* the supervisor with status 0; and after v1, then v2 whose binary always
\* exits with status 1, the system ends with `current` pointing at v1 (as
\* long as no filesystem call of the Rollback fails).
C15_CrashLoopRollsBack ==
    /\ []WatcherPolicy
    /\ (watch.kind = "crashing") =>
          \/ <>(faults > 0)
          \/ <>[](current = "v1" /\ watch.st = "stopped")

\* The crashing child has exited CrashN times at once and the Rollback the
\* watcher invoked has ended the supervisor with `current` on v1.
C15_Witness ==
    /\ watch.kind = "crashing"
    /\ watch.code = "sigterm"
    /\ Len(watch.exits) = CrashN
    /\ current = "v1"
    /\ faults = 0

\* C16: a Rollback called when no previous-* link exists returns an error,
\* changes nothing on disk and sends no SIGTERM: every step of such a call
\* leaves the layout as it is, and the call ends with an error.
C16_RollbackWithoutBackups ==
    [][\A p \in Procs :
          (P(p).op = "rollback" /\ PreBackups(p) = {} /\ InCall(p) /\ proc'[p] # proc[p]) =>
              /\ fs' = fs
              /\ proc'[p].sig = 0
              /\ proc'[p].pc = "done"
              /\ proc'[p].res = "err"]_vars

\* A Rollback on an installed layout without backups has returned its error.
C16_Witness ==
    /\ Errored("ipc", "rollback")
    /\ P("ipc").failed = "nobackup"
    /\ PreBackups("ipc") = {}
    /\ current # None
    /\ binpath = "symlink"

\* C17: an Update that fails because the registry is unreachable or the tag
\* does not exist returns the error having changed nothing on disk: no
\* directory, file or link is created, changed or removed.
C17_RegistryFailureNoMutation ==
    \A p \in Procs :
        (Errored(p, "update") /\ P(p).failed = "registry") =>
            /\ dataDir = P(p).pre.root
            /\ dirs = P(p).pre.dirs
            /\ current = P(p).pre.cur
            /\ previous = P(p).pre.prev
            /\ binpath = P(p).pre.bin

\* The links History reports: those whose target is a release or legacy.
Reported == {t \in Backups : previous[t] \in Tags \cup {"legacy"}}

\* The version a reported link stands for.
ReportedVersion(t) ==
    IF previous[t] = "legacy" THEN [num |-> <<0, 0, 0>>, pre |-> "legacy"]
    ELSE [num |-> NewVersion(versionName(previous[t])).v, pre |-> ""]

NoTransient ==
    /\ \A t \in Times : tmpcur[t] = None
    /\ stray = [cur |-> {}, bin |-> FALSE]

\* C19 as written: whenever an Update or Rollback has returned, no transient
\* link remains.
C19_NoTransientAfterReturn ==
    \A p \in Procs : Returned(p) => NoTransient

\* C19: whenever an Update or Rollback has returned, no transient link of
\* the call remains (the transient entries are those that existed before the
\* call), unless the rename failed and the os.Remove of the temporary link
\* failed too, whose error is dropped.
C19_NoTransientUnlessRemoveFailed ==
    \A p \in Procs :
        Returned(p) =>
            /\ P(p).tmp = 0 /\ P(p).ntmp = None /\ ~P(p).btmp
            /\ ~P(p).left => (tmpcur = P(p).pre.tmpcur /\ stray = P(p).pre.stray)
            /\ P(p).left => P(p).failed \in {"rename", "binlink"}

\* An Update whose rename of `current` failed has removed its temporary link
\* and returned the error.
C19_Witness ==
    /\ Errored("ipc", "update")
    /\ P("ipc").failed = "rename"
    /\ ~P("ipc").left
    /\ NoTransient

\* C20: an Update in which the legacy migration fails (creating
\* versions/legacy or renaming bin_path into it) aborts before any swap:
\* bin_path is still the regular file and `current` is as it was.
C20_MigrationFailureBeforeSwap ==
    \A p \in Procs :
        (Errored(p, "update") /\ P(p).failed = "migrate") =>
            /\ binpath = "regular"
            /\ ~P(p).swapped
            /\ current = P(p).pre.cur

\* The target the call installs: the new version's directory for Update, the
\* target of the consumed backup for Rollback.
NewTarget(p) == IF P(p).op = "update" THEN versionDir(P(p).ver) ELSE P(p).target

\* C21: once the rename of the temporary link onto `current` has succeeded,
\* `current` points at the new target for the rest of the call, also when a
\* later step fails: no later step reverts or re-targets it.
C21_RenameIsLinearizationPoint ==
    \A p \in Procs :
        (P(p).swapped /\ (InCall(p) \/ Returned(p))) => current = NewTarget(p)

\* An Update has returned the error of the bin symlink update after the
\* rename of `current`, which had pointed elsewhere.
C21_Witness ==
    /\ Errored("ipc", "update")
    /\ P("ipc").swapped
    /\ P("ipc").failed = "binlink"
    /\ P("ipc").pre.cur # None
    /\ P("ipc").pre.cur # current

\* C22: a version's binary, once created (complete and executable), is never
\* modified in place by a later step: no step changes the file of a version
\* directory that holds such a binary.
C22_BinaryNeverRewritten ==
    [][\A v \in Vers : files[v] = GoodFile => files'[v] = GoodFile]_vars

\* What is at the path is a regular file.
Regular(f) == f.exists /\ f.c # "dir"

\* The error of the first failing check of the list: exists and is a regular
\* file, size > 0, an execute bit, the four bytes of the ELF magic (which
\* have to be read).
FirstFailing(f) ==
    IF ~Regular(f) THEN "notfound"
    ELSE IF f.c = "empty" THEN "empty"
    ELSE IF f.mode = {} THEN "notexec"
    ELSE IF ~f.r THEN "open"
    ELSE IF f.c = "short" THEN "header"
    ELSE IF f.c # "elf" THEN "notelf"
    ELSE "ok"

C24_ChildExitStatus ==
    /\ ~run.marker => ~run.ran
    /\ (run.marker /\ run.ran /\ run.pc = "done") =>
          /\ run.main = "panics" => (run.recovered /\ run.status = "exit1")
          /\ run.main = "returns" => run.status = "exit0"

\* A child whose userMain panicked has exited.
C24_Witness ==
    /\ run.marker
    /\ run.ran
    /\ run.main = "panics"
    /\ run.pc = "done"

\* C25: after Update calls that met no failure, repeated Updates to the
\* current version included, a successful Rollback leaves `current` at a
\* version other than the one it pointed at before; so does the Rollback
\* after it, and two consecutive Rollbacks reach two distinct versions.
C25_RollbackChangesVersion ==
    \A p \in Procs :
        (faults = 0 /\ Succeeded(p, "rollback")) => current # P(p).pre.cur

\* C26: SIGTERM is sent only by an Update or a Rollback that returns nil: a
\* call that is running or has returned an error has sent none, and when the
\* error came after the swap of `current` (the bin symlink update failed)
\* `current` points at the new target while the supervisor keeps running.
C26_SignalOnlyOnSuccess ==
    \A p \in Procs :
        /\ P(p).sig > 0 => (Returned(p) /\ P(p).res = "ok")
        /\ (Returned(p) /\ P(p).res = "err" /\ P(p).swapped) =>
              (P(p).sig = 0 /\ current = NewTarget(p))

\* A Rollback has swapped `current` to the backup's target and then returned
\* the error of the bin symlink update.
C26_Witness ==
    /\ Errored("ipc", "rollback")
    /\ P("ipc").swapped
    /\ P("ipc").failed \notin {"kill", "none"}
    /\ current = P("ipc").target
    /\ P("ipc").sig = 0

\* C27 as written: in every state in which no Update or Rollback is in
\* progress, whatever calls were made before and whether they succeeded, at
\* most KEEP previous-* links exist in data_dir.
C27_AtMostKeep ==
    (\A p \in Procs : ~InCall(p)) => Cardinality(Backups) <= KEEP

\* The positions of the listed tags that parse.
ParsedAt == {j \in 1..Len(registry) : Parses(registry[j])}

\* C28: CheckForUpdate returns the error of the listing when the listing
\* fails and an error when no tag parses; otherwise it returns every parsed
\* version, and an update exactly when the latest version, the maximum of the
\* parsed ones, is greater than the running version, the update being that
\* latest version; the filesystem is as it was.
C28_CheckForUpdatePureRead ==
    chk.pc = "done" =>
        /\ chk.err \in {None, "list", "noversions"}
        /\ chk.err = "noversions" => Listed = {}
        /\ chk.err = None =>
              /\ Listed # {}
              /\ Len(chk.all) = Cardinality(ParsedAt)
              /\ {chk.all[i] : i \in 1..Len(chk.all)} = Listed
              /\ chk.update # <<>> <=> \E v \in Listed : GreaterThan(v, chk.cur)
              /\ chk.update # <<>> =>
                    (chk.update \in Listed /\ \A v \in Listed : ~GreaterThan(v, chk.update))
        /\ chk.err # None => (chk.update = <<>> /\ chk.all = <<>>)
        /\ ~dataDir /\ dirs = {} /\ current = None /\ Backups = {}

====
